---- MODULE Spec2Model ----
(***************************************************************************)
(* DataSyncService (dataSyncService.js) as a state machine.                *)
(*                                                                         *)
(* The service is a singleton with a publish/subscribe cache.  Its async   *)
(* methods (initialize, refresh, the setInterval callback) are modelled as *)
(* calls that advance from one await to the next; everything between two   *)
(* awaits runs as one step, as it does on the JavaScript event loop.       *)
(***************************************************************************)
EXTENDS Integers, Sequences, FiniteSets

\* Number of async calls (initialize, refresh, timer callbacks) of one run.
MaxCalls == 2

\* The callbacks handed to subscribe; A throws when it is called.
Callbacks == {"A", "B"}
Throws(cb) == cb = "A"

\* Patient ids; the mock fixture lists them all, and so does the remote
\* source when its Patient search answers with entries.
PatientIds == {"P1"}
DashboardPatients == {"P1"}

\* What the three searches of restApiService.getDashboardData come to: the
\* Patient entries of the server, or none (a search that fails resolves to
\* getMockResources(), the empty list, like a search without a match).
RemotePatients == {DashboardPatients, {}}

\* Enrichment lists (timestamps) a caller hands to updateAITimestamps.
TimestampLists == {<<1, 2>>}

\* The list the enrichment collaborator returns for a patient in a load cycle.
GeneratedTimestamps == <<3, 2>>

Calls == 1..MaxCalls

VARIABLES
    restIsConnected,   \* restApiService.isConnected (set by testConnection)
    isConnected,       \* this.isConnected
    lastSyncTime,      \* this.lastSyncTime: 0 is null, else the call that set it
    syncInterval,      \* this.syncInterval: 0 is null, else a timer id
    timers,            \* the interval timers armed in the runtime
    subscribers,       \* this.subscribers: a Set, in insertion order
    cachedData,        \* this.cachedData: the object and its fields
    aiTimestampData,   \* this.aiTimestampData: patient id -> list
    procs,             \* the async calls: position and locals of each
    nCalls,            \* calls made so far
    destroyedAt,       \* calls made when destroy() last ran with one in flight
    lastNotify,        \* the notifySubscribers call of the last step, if any
    afterDestroy,      \* the last step was destroy()
    lastUnsubscribe,   \* the unsubscribe function that was called last
    request,           \* restApiService: the searchResources or getResource
                       \* call at hand, the requests it sent, its outcome
    input,             \* the arguments of a function without side effects
    output             \* what it returned, once it was applied

\* The state of DataSyncService and of what it runs on.
serviceVars == <<restIsConnected, isConnected, lastSyncTime, syncInterval,
                 timers, subscribers, cachedData, aiTimestampData, procs,
                 nCalls, destroyedAt, lastNotify, afterDestroy,
                 lastUnsubscribe>>

\* The state outside DataSyncService, which none of its methods touches.
elsewhere == <<request, input, output>>

vars == <<serviceVars, elsewhere>>

(***************************************************************************)
(* Data                                                                    *)
(***************************************************************************)

\* getLatestAITimestamp: the first event of the list; 0 is null.
getLatestAITimestamp(timestamps) ==
    IF timestamps = << >> THEN 0 ELSE timestamps[1]

\* constructor: cachedData = { patients: [], ..., analytics: {} }.
\* cyc is the call whose loadDashboardData created the object this.cachedData
\* refers to (0: the constructor's), and so the object's identity; src and
\* adapted describe its dashboard fields (which source, whether
\* adaptDashboardData ran on them); analytics and aiInsights name the call
\* that last wrote that field (0: never written).
EmptyCache ==
    [src |-> "none", cyc |-> 0, adapted |-> FALSE,
     patients |-> {}, aiTimestamps |-> [id \in PatientIds |-> << >>],
     lastAITimestamp |-> [id \in PatientIds |-> 0],
     analytics |-> 0, aiInsights |-> 0]

\* A Map entry that is not there.
Absent == [present |-> FALSE, list |-> << >>]

\* A call that was not made yet.  from is the source its loadDashboardData
\* fetches from, patients the patients of the document it fetched, adapted
\* its decision on adaptDashboardData; armed records that the call started
\* the timer when it ended.
NoCall ==
    [kind |-> "none", pc |-> "idle", useFHIR |-> FALSE, from |-> "none",
     patients |-> {}, adapted |-> FALSE, armed |-> FALSE]

\* A call that ended in an earlier step.
Over == [NoCall EXCEPT !.pc = "over"]

NoNotify == [by |-> 0, stage |-> "none", reached |-> << >>]

\* The unsubscribe function that was called last: cb is its callback, again
\* says that it had been called before, and now that the call was the last
\* step.  A caller holds on to such a function over the step that follows
\* the call if that step subscribes the same callback again, and no longer.
NoUnsubscribe == [cb |-> "none", again |-> FALSE, now |-> FALSE]

InFlight(p) == procs[p].pc \in {"dash", "ai", "analytics"}

\* destroy() ran while call p was in flight (asked of a call in flight or
\* just ended: it was made before destroy() ran, and had not ended then).
Destroyed(p) == p <= destroyedAt

\* destroyedAt after a step: forgotten once no call it speaks of is left.
DestroyedAtNext ==
    IF \E p \in 1..destroyedAt : procs'[p].pc \notin {"idle", "over"}
    THEN destroyedAt ELSE 0

\* The calls as the next step finds them: a call that has ended is over.
Settled ==
    [p \in Calls |->
        IF procs[p].pc \in {"done", "failed"} THEN Over ELSE procs[p]]

Range(s) == {s[i] : i \in 1..Len(s)}

(***************************************************************************)
(* subscribe / unsubscribe / notifySubscribers                             *)
(***************************************************************************)

\* Set.prototype.add: a value already in the Set keeps its place.
SetAdd(s, cb) == IF cb \in Range(s) THEN s ELSE Append(s, cb)

\* Set.prototype.delete.
SetDelete(s, cb) == SelectSeq(s, LAMBDA x : x # cb)

\* The callbacks a forEach over subs reaches when a throw ends the loop.
RECURSIVE ReachedNoCatch(_)
ReachedNoCatch(subs) ==
    IF subs = << >> THEN << >>
    ELSE IF Throws(Head(subs)) THEN <<Head(subs)>>
    ELSE <<Head(subs)>> \o ReachedNoCatch(Tail(subs))

\* notifySubscribers: forEach in insertion order, each callback in its own
\* try/catch, so that every callback of the Set is reached.
RECURSIVE Reached(_)
Reached(subs) ==
    IF subs = << >> THEN << >>
    ELSE <<Head(subs)>> \o Reached(Tail(subs))

\* What one notifySubscribers(this.cachedData) call leaves behind: who
\* called it, at which stage, and the callbacks that were handed the object.
Notified(by, stage) ==
    [by |-> by, stage |-> stage, reached |-> Reached(subscribers)]

(***************************************************************************)
(* The periodic timer                                                      *)
(***************************************************************************)

\* setInterval's return value: an id that no armed timer has and that is
\* not the id h the caller still holds.
Fresh(ts, h) ==
    CHOOSE n \in 1..(Cardinality(ts) + 2) : n \notin ts \cup {h}

\* startPeriodicSync without the clearInterval of the old timer.
startPeriodicSyncNoClear(ts, h) ==
    [timers |-> ts \cup {Fresh(ts, h)}, handle |-> Fresh(ts, h)]

\* startPeriodicSync: clears the interval it holds, then arms a new one.
startPeriodicSync(ts, h) ==
    LET cleared == IF h # 0 THEN ts \ {h} ELSE ts
    IN  [timers |-> cleared \cup {Fresh(cleared, h)},
         handle |-> Fresh(cleared, h)]

\* stopPeriodicSync that forgets the handle without clearing the interval.
stopPeriodicSyncNoClear(ts, h) == [timers |-> ts, handle |-> 0]

\* stopPeriodicSync: clears the interval it holds and forgets the handle.
stopPeriodicSync(ts, h) ==
    IF h # 0 THEN [timers |-> ts \ {h}, handle |-> 0]
    ELSE [timers |-> ts, handle |-> h]

(***************************************************************************)
(* restApiService: searchResources and getResource                         *)
(***************************************************************************)

\* The resource types getDashboardData searches for.
ResourceTypes == {"Patient", "Encounter", "Observation"}

\* The _sort parameter a caller hands to searchResources ("": none).
CallerSorts == {"", "date"}

\* What a fetch comes to: status 0 stands for a rejected fetch (a network
\* error); the body matters for a 2xx answer only.
Answers ==
    [status : {0, 400, 404, 422, 500}, body : {"notJSON"}]
        \cup [status : {200}, body : {"entries", "noEntry", "notJSON"}]

\* response.ok
ResponseOk(a) == a.status \in 200..299

\* getMockResources: the empty list, whatever it is asked for.
getMockResources == "empty"

\* buildUrl of searchResources, as the _sort parameter of its query string
\* ("": the query string has none): the caller's parameters are all appended;
\* the default sort is appended unless omitSort or the caller gave a sort.
buildUrl(type, sort, omitSort) ==
    [type |-> type,
     sort |-> IF sort # "" THEN sort
              ELSE IF omitSort THEN "" ELSE "-_lastUpdated"]

\* searchResources that lets its errors out to the caller.
searchResultNoCatch(a) ==
    IF a.status = 0 \/ ~ResponseOk(a) \/ a.body = "notJSON" THEN "rejected"
    ELSE IF a.body = "noEntry" THEN "empty" ELSE "entries"

\* What searchResources resolves to on its last answer: a rejected fetch, a
\* response that is not ok and a body that is no JSON throw into the catch,
\* which returns getMockResources(); else data.entry || [].
searchResult(a) ==
    IF a.status = 0 \/ ~ResponseOk(a) \/ a.body = "notJSON"
    THEN getMockResources
    ELSE IF a.body = "noEntry" THEN "empty" ELSE "entries"

\* What getResource resolves to: null from its catch, else the parsed body.
getResourceResult(a) ==
    IF a.status = 0 \/ ~ResponseOk(a) \/ a.body = "notJSON" THEN "null"
    ELSE "resource"

\* No function applied: nothing handed in, nothing returned.
NoInput == [none |-> TRUE]
NoOutput == [done |-> FALSE]

\* No call of the client at hand.
NoRequest ==
    [op |-> "none", type |-> "none", sort |-> "", pc |-> "idle",
     urls |-> << >>, answers |-> << >>, out |-> "none"]

(***************************************************************************)
(* Init                                                                    *)
(***************************************************************************)

InitService ==
    /\ restIsConnected = FALSE
    /\ isConnected = FALSE
    /\ lastSyncTime = 0
    /\ syncInterval = 0
    /\ timers = {}
    /\ subscribers = << >>
    /\ cachedData = EmptyCache
    /\ aiTimestampData = [id \in PatientIds |-> Absent]
    /\ procs = [p \in Calls |-> NoCall]
    /\ nCalls = 0
    /\ destroyedAt = 0
    /\ lastNotify = NoNotify
    /\ afterDestroy = FALSE
    /\ lastUnsubscribe = NoUnsubscribe

Init ==
    /\ InitService
    /\ request = NoRequest
    /\ input = NoInput
    /\ output = NoOutput

\* A step that notifies nobody and is not destroy().
Quiet ==
    /\ lastNotify' = NoNotify
    /\ afterDestroy' = FALSE
    /\ lastUnsubscribe' = NoUnsubscribe

(***************************************************************************)
(* Operations that complete in one step                                    *)
(***************************************************************************)

\* restApiService.testConnection: the probe answers ok or not.
testConnection ==
    \E ok \in BOOLEAN :
        /\ restIsConnected' = ok
        /\ procs' = Settled
        /\ Quiet
        /\ UNCHANGED elsewhere
        /\ destroyedAt' = DestroyedAtNext
        /\ UNCHANGED <<isConnected, lastSyncTime, syncInterval, timers,
                       subscribers, cachedData, aiTimestampData, nCalls>>

\* subscribe(callback); a callback that is no function is refused.  The
\* function it returns is a closure over the callback.
subscribe ==
    \E cb \in Callbacks \cup {"notAFunction"} :
        /\ subscribers' = IF cb \in Callbacks THEN SetAdd(subscribers, cb)
                          ELSE subscribers
        /\ lastUnsubscribe' =
               IF lastUnsubscribe.now /\ cb = lastUnsubscribe.cb
               THEN [cb |-> cb, again |-> FALSE, now |-> FALSE]
               ELSE NoUnsubscribe
        /\ lastNotify' = NoNotify
        /\ afterDestroy' = FALSE
        /\ procs' = Settled
        /\ UNCHANGED elsewhere
        /\ destroyedAt' = DestroyedAtNext
        /\ UNCHANGED <<restIsConnected, isConnected, lastSyncTime,
                       syncInterval, timers, cachedData, aiTimestampData,
                       nCalls>>

\* A function subscribe(cb) returned is called: this.subscribers.delete(cb).
\* It is called for the first time (the function that the subscribe call
\* which put cb into the Set returned), or it is the function called last,
\* called again.
unsubscribe ==
    \E cb \in Callbacks, again \in BOOLEAN :
        /\ IF again THEN lastUnsubscribe.cb = cb
           ELSE cb \in Range(subscribers)
        /\ subscribers' = SetDelete(subscribers, cb)
        /\ lastUnsubscribe' = [cb |-> cb, again |-> again, now |-> TRUE]
        /\ lastNotify' = NoNotify
        /\ afterDestroy' = FALSE
        /\ procs' = Settled
        /\ UNCHANGED elsewhere
        /\ destroyedAt' = DestroyedAtNext
        /\ UNCHANGED <<restIsConnected, isConnected, lastSyncTime,
                       syncInterval, timers, cachedData, aiTimestampData,
                       nCalls>>

\* A caller's startPeriodicSync().
StartPeriodicSync ==
    LET r == startPeriodicSync(timers, syncInterval)
    IN  /\ timers' = r.timers
        /\ syncInterval' = r.handle
        /\ procs' = Settled
        /\ Quiet
        /\ UNCHANGED elsewhere
        /\ destroyedAt' = DestroyedAtNext
        /\ UNCHANGED <<restIsConnected, isConnected, lastSyncTime,
                       subscribers, cachedData, aiTimestampData, nCalls>>

\* A caller's stopPeriodicSync().
StopPeriodicSync ==
    LET r == stopPeriodicSync(timers, syncInterval)
    IN  /\ timers' = r.timers
        /\ syncInterval' = r.handle
        /\ procs' = Settled
        /\ Quiet
        /\ UNCHANGED elsewhere
        /\ destroyedAt' = DestroyedAtNext
        /\ UNCHANGED <<restIsConnected, isConnected, lastSyncTime,
                       subscribers, cachedData, aiTimestampData, nCalls>>

\* destroy(): stopPeriodicSync, subscribers.clear, aiTimestampData.clear.
\* The calls in flight are left alone.
destroy ==
    LET r == stopPeriodicSync(timers, syncInterval)
    IN  /\ timers' = r.timers
        /\ syncInterval' = r.handle
        /\ subscribers' = << >>
        /\ aiTimestampData' = [id \in PatientIds |-> Absent]
        /\ procs' = Settled
        /\ UNCHANGED elsewhere
        /\ destroyedAt' = IF \E p \in Calls : InFlight(p) THEN nCalls ELSE 0
        /\ lastNotify' = NoNotify
        /\ afterDestroy' = TRUE
        /\ lastUnsubscribe' = NoUnsubscribe
        /\ UNCHANGED <<restIsConnected, isConnected, lastSyncTime, cachedData,
                       nCalls>>

\* updateAITimestamps(patientId, timestamps): stores the list, patches the
\* patient of the cached object in place, notifies.
updateAITimestamps ==
    \E id \in PatientIds, ts \in TimestampLists :
        /\ aiTimestampData' =
               [aiTimestampData EXCEPT ![id] = [present |-> TRUE, list |-> ts]]
        /\ cachedData' =
               IF id \in cachedData.patients
               THEN [cachedData EXCEPT
                        !.aiTimestamps[id] = ts,
                        !.lastAITimestamp[id] = getLatestAITimestamp(ts)]
               ELSE cachedData
        /\ lastNotify' = Notified(0, "update")
        /\ procs' = Settled
        /\ afterDestroy' = FALSE
        /\ lastUnsubscribe' = NoUnsubscribe
        /\ UNCHANGED elsewhere
        /\ destroyedAt' = DestroyedAtNext
        /\ UNCHANGED <<restIsConnected, isConnected, lastSyncTime,
                       syncInterval, timers, subscribers, nCalls>>

(***************************************************************************)
(* The async calls                                                         *)
(***************************************************************************)

\* loadDashboardData up to its first await: the source is chosen by
\* this.isConnected and the fetch is issued.
Started(kind, useFHIR, connected) ==
    [NoCall EXCEPT
        !.kind = kind, !.pc = "dash", !.useFHIR = useFHIR,
        !.from = IF connected THEN "fhir" ELSE "mock"]

\* initialize(useFHIR): sets isConnected, then calls loadDashboardData.
initialize ==
    \E useFHIR \in BOOLEAN :
        /\ nCalls < MaxCalls
        /\ nCalls' = nCalls + 1
        /\ isConnected' = (useFHIR /\ restIsConnected)
        /\ procs' = [Settled EXCEPT
               ![nCalls + 1] = Started("initialize", useFHIR, isConnected')]
        /\ Quiet
        /\ UNCHANGED elsewhere
        /\ destroyedAt' = DestroyedAtNext
        /\ UNCHANGED <<restIsConnected, lastSyncTime, syncInterval, timers,
                       subscribers, cachedData, aiTimestampData>>

\* refresh(): calls loadDashboardData, whatever else is in flight.
refresh ==
    /\ nCalls < MaxCalls
    /\ nCalls' = nCalls + 1
    /\ procs' = [Settled EXCEPT
           ![nCalls + 1] = Started("refresh", FALSE, isConnected)]
    /\ Quiet
    /\ UNCHANGED elsewhere
    /\ destroyedAt' = DestroyedAtNext
    /\ UNCHANGED <<restIsConnected, isConnected, lastSyncTime, syncInterval,
                   timers, subscribers, cachedData, aiTimestampData>>

\* An armed interval fires: its callback calls loadDashboardData.
tick ==
    /\ timers # {}
    /\ nCalls < MaxCalls
    /\ nCalls' = nCalls + 1
    /\ procs' = [Settled EXCEPT
           ![nCalls + 1] = Started("tick", FALSE, isConnected)]
    /\ Quiet
    /\ UNCHANGED elsewhere
    /\ destroyedAt' = DestroyedAtNext
    /\ UNCHANGED <<restIsConnected, isConnected, lastSyncTime, syncInterval,
                   timers, subscribers, cachedData, aiTimestampData>>

\* Where a call ends when its loadDashboardData rejects and nothing
\* catches the error.
RejectedNoCatch(kind) == "failed"

\* Where a call ends when its loadDashboardData rejects: the timer's
\* callback catches the error, initialize and refresh rethrow it.
Rejected(kind) == IF kind = "tick" THEN "done" ELSE "failed"

\* The dashboard fetch of call p settles.  The mock fixture fetch may be
\* rejected; restApiService.getDashboardData catches every error and builds
\* its document from whatever its searches resolved to.  On success
\* this.isConnected is read again to decide on adaptDashboardData, and
\* enhanceWithAITimestamps is called.  On failure the error is rethrown to
\* the caller of initialize or refresh, and caught in the timer callback.
DashboardLoaded ==
    \E p \in Calls, ok \in BOOLEAN, found \in RemotePatients :
        /\ procs[p].pc = "dash"
        /\ ok \/ procs[p].from = "mock"
        /\ found = DashboardPatients \/ (ok /\ procs[p].from = "fhir")
        /\ procs' = [Settled EXCEPT ![p] =
               IF ok THEN [@ EXCEPT !.pc = "ai", !.adapted = ~isConnected,
                                    !.patients = found]
               ELSE [@ EXCEPT !.pc = Rejected(procs[p].kind)]]
        /\ Quiet
        /\ UNCHANGED elsewhere
        /\ destroyedAt' = DestroyedAtNext
        /\ UNCHANGED <<restIsConnected, isConnected, lastSyncTime,
                       syncInterval, timers, subscribers, cachedData,
                       aiTimestampData, nCalls>>

\* The object { ...this.cachedData, ...enhancedData } of call p: the
\* dashboard fields are the call's, every other field is the old object's.
Merged(old, p) ==
    [src |-> procs[p].from, cyc |-> p,
     adapted |-> procs[p].adapted, patients |-> procs[p].patients,
     aiTimestamps |-> [id \in PatientIds |->
         IF id \in procs[p].patients THEN GeneratedTimestamps ELSE << >>],
     lastAITimestamp |-> [id \in PatientIds |->
         IF id \in procs[p].patients
         THEN getLatestAITimestamp(GeneratedTimestamps) ELSE 0],
     analytics |-> old.analytics, aiInsights |-> old.aiInsights]

\* The enrichment of call p settles.  generateAITimestamps writes the
\* answer's insights into this.cachedData.aiInsights of the cached object;
\* loadDashboardData then updates the cache, notifies the subscribers and
\* sets lastSyncTime.  initialize and refresh go on to loadAnalyticsData;
\* the timer callback ends.
Publish ==
    \E p \in Calls :
        /\ procs[p].pc = "ai"
        /\ cachedData' = Merged([cachedData EXCEPT !.aiInsights = p], p)
        /\ lastNotify' = Notified(p, "dashboard")
        /\ lastSyncTime' = p
        /\ procs' = [Settled EXCEPT ![p] =
               [@ EXCEPT !.adapted = FALSE, !.patients = {},
                         !.pc = IF procs[p].kind = "tick" THEN "done"
                                ELSE "analytics"]]
        /\ afterDestroy' = FALSE
        /\ lastUnsubscribe' = NoUnsubscribe
        /\ UNCHANGED elsewhere
        /\ destroyedAt' = DestroyedAtNext
        /\ UNCHANGED <<restIsConnected, isConnected, syncInterval, timers,
                       subscribers, aiTimestampData, nCalls>>

\* loadAnalyticsData of call p settles: on success the analytics field of
\* the cached object is assigned and the subscribers are notified; a failure
\* is caught.  initialize then starts the timer if this.isConnected.
AnalyticsLoaded ==
    \E p \in Calls, ok \in BOOLEAN :
        LET arm == procs[p].kind = "initialize" /\ isConnected
            r == IF arm THEN startPeriodicSync(timers, syncInterval)
                 ELSE [timers |-> timers, handle |-> syncInterval]
        IN  /\ procs[p].pc = "analytics"
            /\ cachedData' = IF ok THEN [cachedData EXCEPT !.analytics = p]
                             ELSE cachedData
            /\ lastNotify' = IF ok THEN Notified(p, "analytics") ELSE NoNotify
            /\ timers' = r.timers
            /\ syncInterval' = r.handle
            /\ procs' = [Settled EXCEPT ![p] =
                   [@ EXCEPT !.pc = "done", !.armed = arm]]
            /\ afterDestroy' = FALSE
            /\ lastUnsubscribe' = NoUnsubscribe
            /\ UNCHANGED elsewhere
            /\ destroyedAt' = DestroyedAtNext
            /\ UNCHANGED <<restIsConnected, isConnected, lastSyncTime,
                           subscribers, aiTimestampData, nCalls>>

Next ==
    \/ testConnection
    \/ subscribe
    \/ unsubscribe
    \/ StartPeriodicSync
    \/ StopPeriodicSync
    \/ destroy
    \/ updateAITimestamps
    \/ initialize
    \/ refresh
    \/ tick
    \/ DashboardLoaded
    \/ Publish
    \/ AnalyticsLoaded

Spec == Init /\ [][Next]_vars

(***************************************************************************)
(* The App component's use of the service (App.js, the first useEffect):   *)
(* it subscribes, initializes with its fhirConnected flag, and unsubscribes *)
(* on cleanup; it never calls refresh, destroy, updateAITimestamps or the  *)
(* timer methods.                                                          *)
(***************************************************************************)

NextApp ==
    \/ testConnection
    \/ subscribe
    \/ unsubscribe
    \/ initialize
    \/ tick
    \/ DashboardLoaded
    \/ Publish
    \/ AnalyticsLoaded

SpecApp == Init /\ [][NextApp]_vars

(***************************************************************************)
(* The service without a remote source: every operation that calls         *)
(* notifySubscribers or changes the subscriber Set.  isConnected stays     *)
(* false, so that no timer is armed and the timer methods, which neither   *)
(* read nor write the subscriber Set, are left out.                        *)
(***************************************************************************)

NextNotify ==
    \/ subscribe
    \/ unsubscribe
    \/ destroy
    \/ updateAITimestamps
    \/ initialize
    \/ refresh
    \/ DashboardLoaded
    \/ Publish
    \/ AnalyticsLoaded

SpecNotify == Init /\ [][NextNotify]_vars

(***************************************************************************)
(* The service without subscribers: every operation that reads or writes   *)
(* isConnected, syncInterval or the timers.  subscribe, unsubscribe,       *)
(* updateAITimestamps and refresh touch none of them and are left out; the *)
(* load cycles that overlap the timer operations are those of initialize   *)
(* and of the timer's own callback.                                        *)
(***************************************************************************)

NextTimer ==
    \/ testConnection
    \/ StartPeriodicSync
    \/ StopPeriodicSync
    \/ destroy
    \/ initialize
    \/ tick
    \/ DashboardLoaded
    \/ Publish
    \/ AnalyticsLoaded

SpecTimer == Init /\ [][NextTimer]_vars

(***************************************************************************)
(* The service around destroy(): every operation that fills what destroy() *)
(* clears (the subscriber Set, the enrichment Map, the timer), with load   *)
(* cycles in flight started by refresh and by the timer's callback.        *)
(* isConnected, which destroy() neither reads nor writes, stays false.     *)
(***************************************************************************)

NextDestroy ==
    \/ subscribe
    \/ unsubscribe
    \/ updateAITimestamps
    \/ StartPeriodicSync
    \/ StopPeriodicSync
    \/ destroy
    \/ refresh
    \/ tick
    \/ DashboardLoaded
    \/ Publish
    \/ AnalyticsLoaded

SpecDestroy == Init /\ [][NextDestroy]_vars

(***************************************************************************)
(* The REST client on its own: one searchResources or getResource call at  *)
(* a time, from its first fetch to its outcome.                             *)
(***************************************************************************)

\* searchResources(type, params): the first request goes out.
searchResources ==
    \E type \in ResourceTypes, sort \in CallerSorts :
        /\ request.pc \in {"idle", "done"}
        /\ request' = [NoRequest EXCEPT
               !.op = "search", !.type = type, !.sort = sort, !.pc = "first",
               !.urls = <<buildUrl(type, sort, FALSE)>>, !.out = "pending"]
        /\ UNCHANGED <<serviceVars, input, output>>

\* A fetch of searchResources settles: a 400 or 422 to the first request
\* sends the second one, built with omitSort; every other answer, and every
\* answer to the second request, ends the call.
SearchAnswered ==
    \E a \in Answers :
        /\ request.op = "search"
        /\ request.pc \in {"first", "retry"}
        /\ request' =
               IF request.pc = "first" /\ a.status \in {400, 422}
               THEN [request EXCEPT
                        !.pc = "retry",
                        !.answers = Append(@, a),
                        !.urls = Append(@, buildUrl(request.type,
                                                    request.sort, TRUE))]
               ELSE [request EXCEPT
                        !.pc = "done",
                        !.answers = Append(@, a),
                        !.out = searchResult(a)]
        /\ UNCHANGED <<serviceVars, input, output>>

\* getResource(type, id): its one request goes out.
getResource ==
    \E type \in ResourceTypes :
        /\ request.pc \in {"idle", "done"}
        /\ request' = [NoRequest EXCEPT
               !.op = "get", !.type = type, !.pc = "first",
               !.urls = <<[type |-> type, sort |-> ""]>>, !.out = "pending"]
        /\ UNCHANGED <<serviceVars, input, output>>

\* The fetch of getResource settles.
GetAnswered ==
    \E a \in Answers :
        /\ request.op = "get"
        /\ request.pc = "first"
        /\ request' = [request EXCEPT
               !.pc = "done",
               !.answers = Append(@, a),
               !.out = getResourceResult(a)]
        /\ UNCHANGED <<serviceVars, input, output>>

NextRest ==
    \/ searchResources
    \/ SearchAnswered
    \/ getResource
    \/ GetAnswered

SpecRest == Init /\ [][NextRest]_vars

(***************************************************************************)
(* DepartmentAnalytics: the four-hour target indicator                     *)
(***************************************************************************)

\* The steps the component sums up.
keySteps ==
    {"Triage to Nurse", "Triage to Doctor", "Pathology Request to Result",
     "Imaging Request to Reported", "Doctor to Senior Doctor",
     "Admission Request to Bed", "Bed Allocation to Departure"}

\* A step of a turnaround mapping that is no key step.
OtherSteps == {"Door to Triage"}

\* Minutes of a step.
Minutes == {0, 60, 61}

\* The turnaround mappings: some steps, each with its minutes.
Turnarounds ==
    UNION {[D -> Minutes] : D \in SUBSET (keySteps \cup OtherSteps)}

\* keySteps.reduce((sum, k) => sum + (turnaround[k] || 0), 0)
RECURSIVE SumOver(_, _)
SumOver(steps, turnaround) ==
    IF steps = {} THEN 0
    ELSE LET k == CHOOSE x \in steps : TRUE
         IN  (IF k \in DOMAIN turnaround THEN turnaround[k] ELSE 0)
                 + SumOver(steps \ {k}, turnaround)

estimatedJourney(turnaround) == SumOver(keySteps, turnaround)

fourHourThreshold == 240

\* The indicator with strict comparisons.
fourHourStatusStrict(journey) ==
    IF journey < fourHourThreshold THEN "ON TARGET"
    ELSE IF journey < 300 THEN "AT RISK"
    ELSE "OFF TARGET"

\* fourHourStatus.label
fourHourStatus(journey) ==
    IF journey <= fourHourThreshold THEN "ON TARGET"
    ELSE IF journey <= 300 THEN "AT RISK"
    ELSE "OFF TARGET"

InitAnalytics ==
    /\ InitService
    /\ request = NoRequest
    /\ input \in Turnarounds
    /\ output = NoOutput

\* The component renders the mapping it was handed.
DepartmentAnalytics ==
    /\ ~output.done
    /\ output' = [done |-> TRUE,
                  journey |-> estimatedJourney(input),
                  label |-> fourHourStatus(estimatedJourney(input))]
    /\ UNCHANGED <<serviceVars, request, input>>

SpecAnalytics == InitAnalytics /\ [][DepartmentAnalytics]_vars

(***************************************************************************)
(* generateTimelineEvents                                                  *)
(***************************************************************************)

\* Timestamps are 1..MaxTime; 0 is a startTime or endTime that is not there.
MaxTime == 3

\* Length of an enrichment list handed to generateTimelineEvents.
MaxEvents == 2

\* The adapted encounters, as their startTime and endTime.
Encounters == [startTime : 0..MaxTime, endTime : 0..MaxTime]

\* The enrichment lists, as the timestamps of their events, in any order.
AiLists == UNION {[1..n -> 1..MaxTime] : n \in 0..MaxEvents}

\* The events of an enrichment list.
AiEvents(list) ==
    [i \in 1..Len(list) |->
        [timestamp |-> list[i], source |-> "ai_generated", type |-> "ai"]]

\* events.sort((a, b) => b.timestamp - a.timestamp): descending, and stable,
\* so that events with the same timestamp stay in the order they had.
RECURSIVE sortByTimestampDesc(_)
sortByTimestampDesc(events) ==
    IF events = << >> THEN << >>
    ELSE LET sorted == sortByTimestampDesc(SubSeq(events, 1, Len(events) - 1))
             e == events[Len(events)]
             k == Cardinality({i \in 1..Len(sorted) :
                                  sorted[i].timestamp >= e.timestamp})
         IN  SubSeq(sorted, 1, k) \o <<e>> \o SubSeq(sorted, k + 1, Len(sorted))

\* generateTimelineEvents(encounter, aiTimestamps): the start event if there
\* is a startTime, then the enrichment events, then the end event if there
\* is an endTime; the whole sorted.
generateTimelineEvents(encounter, aiTimestamps) ==
    sortByTimestampDesc(
        (IF encounter.startTime # 0
         THEN <<[timestamp |-> encounter.startTime, source |-> "fhir",
                 type |-> "encounter_start"]>>
         ELSE << >>)
        \o AiEvents(aiTimestamps)
        \o (IF encounter.endTime # 0
            THEN <<[timestamp |-> encounter.endTime, source |-> "fhir",
                    type |-> "encounter_end"]>>
            ELSE << >>))

InitTimelineEvents ==
    /\ InitService
    /\ request = NoRequest
    /\ input \in [encounter : Encounters, aiTimestamps : AiLists]
    /\ output = NoOutput

\* generateTimelineEvents is applied to the encounter and the list.
GenerateTimelineEvents ==
    /\ ~output.done
    /\ output' = [done |-> TRUE,
                  events |-> generateTimelineEvents(input.encounter,
                                                    input.aiTimestamps)]
    /\ UNCHANGED <<serviceVars, request, input>>

SpecTimelineEvents == InitTimelineEvents /\ [][GenerateTimelineEvents]_vars

(***************************************************************************)
(* getPatientTimeline.  It is called on the service in any state a load    *)
(* cycle, a subscriber and updateAITimestamps can bring it to; input holds *)
(* the call that awaits its fetch, output the timeline it returned.        *)
(***************************************************************************)

\* The encounters a timeline fetch answers with.
TimelineEncounters == {e \in Encounters : e.startTime = 1 /\ e.endTime \in {0, 2}}

\* generateTimelineEvents that sorts the list it was handed where it is.
handedListSortedInPlace(list) ==
    LET sorted == sortByTimestampDesc(AiEvents(list))
    IN  [i \in 1..Len(list) |-> sorted[i].timestamp]

\* The list handed to generateTimelineEvents, once it returned:
\* events.push(...aiTimestamps) copies the elements into a new array and
\* events.sort works on that array, so the list is as it was.
handedList(list) == list

\* getPatientTimeline(patientId) up to its await: the source is chosen by
\* this.isConnected and the fetch is issued.
getPatientTimeline ==
    \E id \in PatientIds :
        /\ input.none
        /\ input' = [none |-> FALSE, patientId |-> id,
                     from |-> IF isConnected THEN "fhir" ELSE "mock"]
        /\ output' = NoOutput
        /\ procs' = Settled
        /\ Quiet
        /\ destroyedAt' = DestroyedAtNext
        /\ UNCHANGED <<restIsConnected, isConnected, lastSyncTime,
                       syncInterval, timers, subscribers, cachedData,
                       aiTimestampData, nCalls, request>>

\* The fetch of getPatientTimeline settles.  The mock fixture fetch may be
\* rejected, and restApiService.getPatientTimeline may resolve to no
\* encounter: the timeline is empty.  Else the encounter is given the list
\* this.aiTimestampData holds for the patient ([] if it holds none) and the
\* events generateTimelineEvents makes of the two.
TimelineLoaded ==
    \E ok \in BOOLEAN, encounter \in TimelineEncounters :
        LET id == input.patientId
            list == IF aiTimestampData[id].present
                    THEN aiTimestampData[id].list ELSE << >>
        IN  /\ ~input.none
            /\ output' =
                   [done |-> TRUE,
                    timeline |->
                        IF ok
                        THEN <<[aiTimeline |-> list,
                                timelineEvents |->
                                    generateTimelineEvents(encounter, list)]>>
                        ELSE << >>]
            /\ aiTimestampData' =
                   IF ok /\ aiTimestampData[id].present
                   THEN [aiTimestampData EXCEPT ![id].list = handedList(@)]
                   ELSE aiTimestampData
            /\ input' = NoInput
            /\ procs' = Settled
            /\ Quiet
            /\ destroyedAt' = DestroyedAtNext
            /\ UNCHANGED <<restIsConnected, isConnected, lastSyncTime,
                           syncInterval, timers, subscribers, cachedData,
                           nCalls, request>>

NextTimeline ==
    \/ testConnection
    \/ subscribe
    \/ updateAITimestamps
    \/ initialize
    \/ DashboardLoaded
    \/ Publish
    \/ AnalyticsLoaded
    \/ getPatientTimeline
    \/ TimelineLoaded

SpecTimeline == Init /\ [][NextTimeline]_vars

(***************************************************************************)
(* A patient's age: restApiService.calculateAge and the age computed in    *)
(* FHIRClient.buildDashboardData                                           *)
(***************************************************************************)

\* A small calendar: years 1..MaxYear of MaxMonth months of MaxDay days.
MaxYear == 3
MaxMonth == 2
MaxDay == 2

Dates == [year : 1..MaxYear, month : 1..MaxMonth, day : 1..MaxDay]

\* d is a day before e, or e itself.
NotAfter(d, e) ==
    \/ d.year < e.year
    \/ d.year = e.year /\ d.month < e.month
    \/ d.year = e.year /\ d.month = e.month /\ d.day <= e.day

\* The day before d.
PrevDay(d) ==
    IF d.day > 1 THEN [d EXCEPT !.day = @ - 1]
    ELSE IF d.month > 1 THEN [d EXCEPT !.month = @ - 1, !.day = MaxDay]
    ELSE [year |-> d.year - 1, month |-> MaxMonth, day |-> MaxDay]

\* new Date(birthDate) read with getFullYear, getMonth and getDate: a date
\* string without a time is midnight UTC, and the getters answer in local
\* time, which west of Greenwich is still the day before.
localDate(birthDate, west) ==
    IF west THEN PrevDay(birthDate) ELSE birthDate

\* restApiService.calculateAge; today is new Date(), the local date.
calculateAge(birthDate, today, west) ==
    LET birth == localDate(birthDate, west)
        age == today.year - birth.year
        monthDiff == today.month - birth.month
    IN  IF monthDiff < 0 \/ (monthDiff = 0 /\ today.day < birth.day)
        THEN age - 1 ELSE age

\* FHIRClient.buildDashboardData: the difference of the years.
yearDifference(birthDate, today, west) ==
    today.year - localDate(birthDate, west).year

\* A patient born on birthDate, the service running on the day today, in a
\* time zone west of Greenwich or not.
InitAge ==
    /\ InitService
    /\ request = NoRequest
    /\ input \in {i \in [birthDate : Dates, today : Dates, west : BOOLEAN] :
                     NotAfter(i.birthDate, i.today)}
    /\ output = NoOutput

\* restApiService.buildDashboardData derives the age with calculateAge.
CalculateAge ==
    /\ ~output.done
    /\ output' = [done |-> TRUE, by |-> "calculateAge",
                  age |-> calculateAge(input.birthDate, input.today,
                                       input.west)]
    /\ UNCHANGED <<serviceVars, request, input>>

\* FHIRClient.buildDashboardData derives the age on its own.
BuildDashboardDataAge ==
    /\ ~output.done
    /\ output' = [done |-> TRUE, by |-> "FHIRClient.buildDashboardData",
                  age |-> yearDifference(input.birthDate, input.today,
                                         input.west)]
    /\ UNCHANGED <<serviceVars, request, input>>

NextAge ==
    \/ CalculateAge
    \/ BuildDashboardDataAge

SpecAge == InitAge /\ [][NextAge]_vars

(***************************************************************************)
(* restApiService.extractVitals                                            *)
(***************************************************************************)

\* Observations handed to extractVitals.
MaxObs == 2

\* The codes of the switch, and the field each of them writes.
VitalCodes == {"8867-4", "8480-6", "8462-4", "8310-5", "2708-6"}

FieldOf(code) ==
    CASE code = "8867-4" -> "hr"
      [] code \in {"8480-6", "8462-4"} -> "bp"
      [] code = "8310-5" -> "temp"
      [] code = "2708-6" -> "spo2"

VitalFields == {"hr", "bp", "temp", "rr", "spo2"}

\* A code the switch does not know (respiratory rate), and "" for an
\* observation without a code.
OtherCodes == {"9279-1", ""}

\* valueQuantity.value in tenths: 0 (or no value at all), 0.4 and 1.0.
Tenths == {0, 4, 10}

\* subject.reference of an observation ("": the observation has no subject).
Subjects == {"Patient/P1", "Patient/P2", ""}

Observations ==
    [subject : Subjects, code : VitalCodes \cup OtherCodes, value : Tenths]

ObservationLists == UNION {[1..n -> Observations] : n \in 0..MaxObs}

\* The values of a field: undefined, the string N/A, a number, a string
\* made of numbers (the text of toFixed(1), in tenths; the two halves of
\* a blood pressure, Dashes standing for "--").
Undefined == [kind |-> "undefined", val |-> << >>]
NA == [kind |-> "N/A", val |-> << >>]
Number(n) == [kind |-> "number", val |-> <<n>>]
String(parts) == [kind |-> "string", val |-> parts]
Dashes == -1

\* Math.round of a value in tenths.
Round(tenths) == (tenths + 5) \div 10

\* What JavaScript takes for true: not undefined, not 0; the strings here
\* are never empty.
Truthy(field) ==
    /\ field.kind # "undefined"
    /\ field.kind = "number" => field.val[1] # 0

\* const vitals = {}
NoVitals == [f \in {"hr", "bp", "temp", "spo2"} |-> Undefined]

\* The body of the forEach for one observation of the patient.
Observed(vitals, obs) ==
    IF obs.code = "" \/ obs.value = 0 THEN vitals
    ELSE CASE obs.code = "8867-4" ->
                [vitals EXCEPT !.hr = Number(Round(obs.value))]
           [] obs.code = "8480-6" ->
                [vitals EXCEPT !.bp =
                    IF Truthy(@) THEN String(<<Round(obs.value), @.val[2]>>)
                    ELSE String(<<Round(obs.value), Dashes>>)]
           [] obs.code = "8462-4" ->
                [vitals EXCEPT !.bp =
                    IF Truthy(@) THEN String(<<@.val[1], Round(obs.value)>>)
                    ELSE String(<<Dashes, Round(obs.value)>>)]
           [] obs.code = "8310-5" ->
                [vitals EXCEPT !.temp = String(<<obs.value>>)]
           [] obs.code = "2708-6" ->
                [vitals EXCEPT !.spo2 = Number(Round(obs.value))]
           [] OTHER -> vitals

\* `Patient/${patientId}`
Reference(patientId) == "Patient/" \o patientId

\* patientObservations.forEach over the observations of the patient.
RECURSIVE Collected(_, _)
Collected(observations, patientId) ==
    IF observations = << >> THEN NoVitals
    ELSE LET before == Collected(SubSeq(observations, 1,
                                        Len(observations) - 1), patientId)
             obs == observations[Len(observations)]
         IN  IF obs.subject = Reference(patientId) THEN Observed(before, obs)
             ELSE before

\* A field of the returned object without its fallback.
orNothing(field) == field

\* vitals.x || 'N/A'
orNA(field) == IF Truthy(field) THEN field ELSE NA

\* extractVitals(observations, patientId)
extractVitals(observations, patientId) ==
    LET vitals == Collected(observations, patientId)
    IN  [hr |-> orNA(vitals.hr), bp |-> orNA(vitals.bp),
         temp |-> orNA(vitals.temp), rr |-> NA, spo2 |-> orNA(vitals.spo2)]

InitVitals ==
    /\ InitService
    /\ request = NoRequest
    /\ input \in [observations : ObservationLists, patientId : {"P1"}]
    /\ output = NoOutput

\* extractVitals is applied to the observations and the patient.
ExtractVitals ==
    /\ ~output.done
    /\ output' = [done |-> TRUE,
                  vitals |-> extractVitals(input.observations,
                                           input.patientId)]
    /\ UNCHANGED <<serviceVars, request, input>>

SpecVitals == InitVitals /\ [][ExtractVitals]_vars

(***************************************************************************)
(* restApiService.getDashboardData and buildDashboardData: the entries of  *)
(* three searches are adapted into the patients of a dashboard.  A string  *)
(* is the sequence of its words.  The age, the gender and the random wait  *)
(* time of a summary are left out.                                         *)
(***************************************************************************)

\* Entries of one search result.
MaxEntries == 2

\* patient.resource.name: missing or empty (<< >>), or one name whose given
\* and family parts may be missing.
Names ==
    {<< >>,
     <<[given |-> <<"Ann">>, family |-> "Lee"]>>,
     <<[given |-> << >>, family |-> ""]>>}

\* An entry without a resource body.
NoResource == [resource |-> FALSE, id |-> "", name |-> << >>]

PatientEntries ==
    {NoResource} \cup [resource : {TRUE}, id : {"P1", "P2"}, name : Names]

\* An observation entry without a resource body, and a heart rate of P1.
NoObservation == [resource |-> FALSE, subject |-> "", code |-> "", value |-> 0]

ObservationEntries ==
    {NoObservation,
     [resource |-> TRUE, subject |-> "Patient/P1", code |-> "8867-4",
      value |-> 10]}

EncounterEntries == [resource : BOOLEAN]

EntryLists(entries) == UNION {[1..n -> entries] : n \in 0..MaxEntries}

\* getPatientName(patient): `${given} ${family}`.trim(), or the default.
getPatientName(patient) ==
    IF Len(patient.name) > 0
    THEN patient.name[1].given \o
         (IF patient.name[1].family = "" THEN << >>
          ELSE <<patient.name[1].family>>)
    ELSE <<"Unknown", "Patient">>

getPatientStatus(patient) == "in-treatment"

getPatientPriority(patient) == "normal"

\* obs.resource of every entry of a list.
Resources(observations) ==
    [i \in DOMAIN observations |->
        [subject |-> observations[i].subject, code |-> observations[i].code,
         value |-> observations[i].value]]

\* One element of patients.map(...) in buildDashboardData.
Adapted(patient, observations) ==
    [id |-> patient.id,
     name |-> getPatientName(patient),
     status |-> getPatientStatus(patient),
     priority |-> getPatientPriority(patient),
     department |-> "Emergency",
     vitals |-> extractVitals(Resources(observations), patient.id)]

\* Reading a property of entry.resource throws when there is no resource.
NoBody(entries) == \E i \in DOMAIN entries : ~entries[i].resource

\* buildDashboardData(patients, encounters, observations): patient.resource.id
\* in the map, obs.resource.subject in the filter of extractVitals (called
\* once per patient) and enc.resource.status in calculateBedOccupancy.
buildDashboardDataThrows(patients, encounters, observations) ==
    \/ NoBody(patients)
    \/ patients # << >> /\ NoBody(observations)
    \/ NoBody(encounters)

adaptedPatients(patients, observations) ==
    [i \in DOMAIN patients |-> Adapted(patients[i], observations)]

\* The patients of /mock-data/ed-summary.json.
FixturePatients == <<"fixture">>

\* getMockDashboardData(): the fixture, or the empty dashboard when its
\* fetch fails.
getMockDashboardData(fetched) ==
    [from |-> "mock", patients |-> IF fetched THEN FixturePatients ELSE << >>]

\* getDashboardData(): the try block and its catch.
getDashboardData(patients, encounters, observations, fetched) ==
    IF buildDashboardDataThrows(patients, encounters, observations)
    THEN getMockDashboardData(fetched)
    ELSE [from |-> "adapted",
          patients |-> adaptedPatients(patients, observations)]

InitAdapt ==
    /\ InitService
    /\ request = NoRequest
    /\ input \in [patients : EntryLists(PatientEntries),
                  encounters : EntryLists(EncounterEntries),
                  observations : EntryLists(ObservationEntries)]
    /\ output = NoOutput

\* getDashboardData is applied to the results of the three searches.
GetDashboardData ==
    /\ ~output.done
    /\ \E fetched \in BOOLEAN :
           output' = [done |-> TRUE,
                      data |-> getDashboardData(input.patients,
                                                input.encounters,
                                                input.observations, fetched)]
    /\ UNCHANGED <<serviceVars, request, input>>

SpecAdapt == InitAdapt /\ [][GetDashboardData]_vars

(***************************************************************************)
(* enhanceWithAITimestamps and generateAITimestamps on the patients of one *)
(* load cycle: one call of aiDataService.generatePatientTimeline per       *)
(* patient, each of which may throw, then the map over data.patients.      *)
(***************************************************************************)

\* Patients of the document a load cycle has fetched.
MaxPatients == 3

EnrichedIds == {"P1", "P2", "P3"}

\* data.patients: patients with different ids.
PatientLists ==
    {l \in UNION {[1..n -> EnrichedIds] : n \in 0..MaxPatients} :
        \A i, j \in DOMAIN l : l[i] = l[j] => i = j}

\* What generatePatientTimeline does for one patient: it throws, or it
\* answers with timelineEvents, or it answers without them.
Outcomes == {"throws", "events", "noEvents"}

\* aiTimelineData.timelineEvents, latest first.
ServiceEvents == <<5, 4>>

\* generatePatientAITimestamps(patient): events generated locally, sorted
\* latest first.
generatePatientAITimestamps(patient) == <<3, 2, 1>>

\* aiTimestamps[id] = list
Put(aiTimestamps, id, list) ==
    [k \in DOMAIN aiTimestamps \cup {id} |->
        IF k = id THEN list ELSE aiTimestamps[k]]

\* The body of the for loop without its try and catch.
generateStepNoCatch(aiTimestamps, patient, outcome) ==
    CASE outcome = "events" ->
            [threw |-> FALSE,
             aiTimestamps |-> Put(aiTimestamps, patient, ServiceEvents)]
      [] outcome = "noEvents" ->
            [threw |-> FALSE,
             aiTimestamps |-> Put(aiTimestamps, patient, << >>)]
      [] outcome = "throws" ->
            [threw |-> TRUE, aiTimestamps |-> aiTimestamps]

\* The body of the for loop of generateAITimestamps for one patient.
generateStep(aiTimestamps, patient, outcome) ==
    CASE outcome = "events" ->
            [threw |-> FALSE,
             aiTimestamps |-> Put(aiTimestamps, patient, ServiceEvents)]
      [] outcome = "noEvents" ->
            [threw |-> FALSE,
             aiTimestamps |-> Put(aiTimestamps, patient, << >>)]
      [] outcome = "throws" ->
            [threw |-> FALSE,
             aiTimestamps |-> Put(aiTimestamps, patient,
                                  generatePatientAITimestamps(patient))]

\* aiTimestamps[patient.id] || []
ListOf(aiTimestamps, id) ==
    IF id \in DOMAIN aiTimestamps THEN aiTimestamps[id] ELSE << >>

\* enhanceWithAITimestamps(data) once generateAITimestamps has settled: the
\* map over data.patients, or data as it is when an error was caught.
enhanceWithAITimestamps(patients, threw, aiTimestamps) ==
    [i \in DOMAIN patients |->
        IF threw
        THEN [id |-> patients[i], enhanced |-> FALSE,
              aiTimestamps |-> << >>, lastAITimestamp |-> 0]
        ELSE [id |-> patients[i], enhanced |-> TRUE,
              aiTimestamps |-> ListOf(aiTimestamps, patients[i]),
              lastAITimestamp |->
                  getLatestAITimestamp(ListOf(aiTimestamps, patients[i]))]]

InitEnrich ==
    /\ InitService
    /\ request = NoRequest
    /\ input \in [patients : PatientLists]
    /\ output = [done |-> FALSE, threw |-> FALSE, outcomes |-> << >>,
                 aiTimestamps |-> << >>, aiInsights |-> {},
                 patients |-> << >>]

\* One iteration of the loop of generateAITimestamps: the call for the
\* next patient settles.
GenerateAITimestamps ==
    \E outcome \in Outcomes :
        LET i == Len(output.outcomes) + 1
            r == generateStep(output.aiTimestamps, input.patients[i], outcome)
        IN  /\ ~output.done
            /\ ~output.threw
            /\ i <= Len(input.patients)
            /\ output' = [output EXCEPT
                   !.outcomes = Append(@, outcome),
                   !.threw = r.threw,
                   !.aiTimestamps = r.aiTimestamps,
                   !.aiInsights = IF outcome = "throws" THEN @
                                  ELSE @ \cup {input.patients[i]}]
            /\ UNCHANGED <<serviceVars, request, input>>

\* generateAITimestamps has settled: enhanceWithAITimestamps returns and
\* loadDashboardData publishes the patients.
EnhanceWithAITimestamps ==
    /\ ~output.done
    /\ output.threw \/ Len(output.outcomes) = Len(input.patients)
    /\ output' = [output EXCEPT
           !.done = TRUE,
           !.patients = enhanceWithAITimestamps(input.patients, output.threw,
                                                output.aiTimestamps)]
    /\ UNCHANGED <<serviceVars, request, input>>

NextEnrich ==
    \/ GenerateAITimestamps
    \/ EnhanceWithAITimestamps

SpecEnrich == InitEnrich /\ [][NextEnrich]_vars

(***************************************************************************)
(* restApiService.getAnalytics: length of stay from Encounter.period and   *)
(* turnaround from DiagnosticReport.  A time is a number of half minutes   *)
(* (30000 ms), 0 standing for a missing timestamp; hours are in tenths.    *)
(* Every entry has a resource body.                                        *)
(***************************************************************************)

\* Encounters and diagnostic reports of one call.
MaxPeriods == 2
MaxReports == 2

\* Date.now()
Now == 720

\* Encounter.period: no start, or a start with an end before it, after it
\* or missing.
Periods ==
    {[start |-> 0, end |-> 0]} \cup [start : {240, 480}, end : {0, 480, 720}]

\* The code classify gives a report ("": neither RAD nor LAB).
Categories == {"LAB", "RAD", ""}

\* A report: effectiveDateTime missing, or present with issued missing,
\* before it, equal to it or 120.5 minutes after it.
DiagReports ==
    [eff : {0}, issued : {0}, category : Categories]
        \cup [eff : {240}, issued : {0, 120, 240, 481}, category : Categories]

PeriodLists == UNION {[1..n -> Periods] : n \in 0..MaxPeriods}

ReportLists == UNION {[1..n -> DiagReports] : n \in 0..MaxReports}

\* Math.round(a / b) for b > 0.
RoundDiv(a, b) == (2 * a + b) \div (2 * b)

Max(a, b) == IF a >= b THEN a ELSE b

RECURSIVE Sum(_)
Sum(arr) == IF arr = << >> THEN 0 ELSE arr[1] + Sum(Tail(arr))

\* arr.sort((a, b) => a - b)
RECURSIVE sortAscending(_)
sortAscending(arr) ==
    IF arr = << >> THEN << >>
    ELSE LET rest == sortAscending(Tail(arr))
             lower == SelectSeq(rest, LAMBDA x : x <= arr[1])
             upper == SelectSeq(rest, LAMBDA x : x > arr[1])
         IN  lower \o <<arr[1]>> \o upper

\* Math.max(0, Math.round((end - start) / 60000)), Date.now() for no end.
stayMinutes(p) ==
    Max(0, RoundDiv((IF p.end # 0 THEN p.end ELSE Now) - p.start, 2))

\* encounters.map(e => e.resource?.period).filter(p => p?.start).map(...)
losMinutes(encounters) ==
    LET started == SelectSeq(encounters, LAMBDA p : p.start # 0)
    IN  [i \in DOMAIN started |-> stayMinutes(started[i])]

\* +(sum / length / 60).toFixed(1), in tenths of an hour; 4.5 for no stay.
avgLosHours(minutes) ==
    IF minutes # << >> THEN RoundDiv(Sum(minutes), 6 * Len(minutes)) ELSE 45

\* +(sorted[Math.floor(length / 2)] / 60).toFixed(1); 3.2 for no stay.
medianLosHours(minutes) ==
    IF minutes # << >>
    THEN RoundDiv(sortAscending(minutes)[Len(minutes) \div 2 + 1], 6)
    ELSE 32

\* deriveMinutes(r) => null
Null == -1

deriveMinutes(r) ==
    IF r.eff = 0 \/ r.issued = 0 THEN Null
    ELSE IF r.issued < r.eff THEN Null
    ELSE RoundDiv(r.issued - r.eff, 2)

classify(r) ==
    IF r.category = "RAD" THEN "imaging"
    ELSE IF r.category = "LAB" THEN "lab"
    ELSE "other"

\* The durations forEach pushes for one kind.
Durations(diagReports, kind) ==
    LET kept == SelectSeq(diagReports,
                    LAMBDA r : deriveMinutes(r) # Null /\ classify(r) = kind)
    IN  [i \in DOMAIN kept |-> deriveMinutes(kept[i])]

\* avg(arr) without its floor of one minute.
avgNoFloor(arr) ==
    IF arr # << >> THEN RoundDiv(Sum(arr), Len(arr)) ELSE Null

\* avg(arr): undefined (Null) for no duration.
avg(arr) ==
    IF arr # << >> THEN Max(1, RoundDiv(Sum(arr), Len(arr))) ELSE Null

buildTurnaroundData ==
    [k \in {"Triage to Nurse", "Triage to Doctor",
            "Pathology Request to Result", "Imaging Request to Reported",
            "Admission Request to Bed", "Bed Allocation to Departure"} |->
        CASE k = "Triage to Nurse" -> 8
          [] k = "Triage to Doctor" -> 25
          [] k = "Pathology Request to Result" -> 45
          [] k = "Imaging Request to Reported" -> 75
          [] k = "Admission Request to Bed" -> 90
          [] k = "Bed Allocation to Departure" -> 20]

\* The defaults with the computed values written over them.
turnaroundOf(diagReports) ==
    LET labAvg == avg(Durations(diagReports, "lab"))
        imgAvg == avg(Durations(diagReports, "imaging"))
    IN  [k \in DOMAIN buildTurnaroundData |->
            IF k = "Pathology Request to Result" /\ labAvg # Null THEN labAvg
            ELSE IF k = "Imaging Request to Reported" /\ imgAvg # Null
                 THEN imgAvg
            ELSE buildTurnaroundData[k]]

\* getAnalytics(): the mock fixture (fetched or not) when not connected,
\* the computed analytics when connected.
getAnalytics(connected, encounters, diagReports, fetched) ==
    IF ~connected
    THEN [from |-> IF fetched THEN "mock" ELSE "empty",
          turnaround |-> << >>,
          losStats |-> [average |-> 0, median |-> 0]]
    ELSE [from |-> "fhir",
          turnaround |-> turnaroundOf(diagReports),
          losStats |-> [average |-> avgLosHours(losMinutes(encounters)),
                        median |-> medianLosHours(losMinutes(encounters))]]

InitLos ==
    /\ InitService
    /\ request = NoRequest
    /\ input \in [connected : BOOLEAN, encounters : PeriodLists,
                  diagReports : {<< >>}]
    /\ output = NoOutput

InitTurnaround ==
    /\ InitService
    /\ request = NoRequest
    /\ input \in [connected : BOOLEAN, encounters : {<< >>},
                  diagReports : ReportLists]
    /\ output = NoOutput

\* getAnalytics is applied to the results of its two searches.
GetAnalytics ==
    /\ ~output.done
    /\ \E fetched \in BOOLEAN :
           /\ fetched \/ ~input.connected
           /\ output' = [done |-> TRUE,
                         analytics |-> getAnalytics(input.connected,
                                                    input.encounters,
                                                    input.diagReports,
                                                    fetched)]
    /\ UNCHANGED <<serviceVars, request, input>>

SpecLos == InitLos /\ [][GetAnalytics]_vars

SpecTurnaround == InitTurnaround /\ [][GetAnalytics]_vars

(***************************************************************************)
(* subscribe and the functions it returns, with the count of the returned  *)
(* functions that were not called yet: live[cb] is the number of           *)
(* subscribe(cb) calls whose unsubscribe function is still uncalled.  The  *)
(* load cycles of refresh notify the subscribers.                          *)
(***************************************************************************)

\* Uncalled unsubscribe functions per callback.
MaxLive == 2

InitSubscriptions ==
    /\ InitService
    /\ request = NoRequest
    /\ input = NoInput
    /\ output = [done |-> FALSE, live |-> [cb \in Callbacks |-> 0]]

\* subscribe(callback) with a function: this.subscribers.add(callback), and
\* one more unsubscribe function is in the caller's hands.
SubscribeCounted ==
    \E cb \in Callbacks :
        /\ output.live[cb] < MaxLive
        /\ subscribers' = SetAdd(subscribers, cb)
        /\ output' = [output EXCEPT !.live[cb] = @ + 1]
        /\ procs' = Settled
        /\ Quiet
        /\ destroyedAt' = DestroyedAtNext
        /\ UNCHANGED <<restIsConnected, isConnected, lastSyncTime,
                       syncInterval, timers, cachedData, aiTimestampData,
                       nCalls, request, input>>

\* An unsubscribe function that was not called yet is called:
\* this.subscribers.delete(callback).
UnsubscribeCounted ==
    \E cb \in Callbacks :
        /\ output.live[cb] > 0
        /\ subscribers' = SetDelete(subscribers, cb)
        /\ output' = [output EXCEPT !.live[cb] = @ - 1]
        /\ procs' = Settled
        /\ Quiet
        /\ destroyedAt' = DestroyedAtNext
        /\ UNCHANGED <<restIsConnected, isConnected, lastSyncTime,
                       syncInterval, timers, cachedData, aiTimestampData,
                       nCalls, request, input>>

NextSubscriptions ==
    \/ SubscribeCounted
    \/ UnsubscribeCounted
    \/ refresh
    \/ DashboardLoaded
    \/ Publish
    \/ AnalyticsLoaded

SpecSubscriptions == InitSubscriptions /\ [][NextSubscriptions]_vars

(***************************************************************************)
(* Claims                                                                  *)
(***************************************************************************)

\* initialize(true) called when the probe had failed: useFHIR is set and the
\* call fetches from the mock fixture.
FallbackCall(p) ==
    /\ procs[p].kind = "initialize"
    /\ procs[p].useFHIR
    /\ procs[p].from = "mock"

\* C1: an initialize(true) called when the remote probe has failed never
\* ends in an error; the snapshot it publishes reaches every subscriber; and
\* when it has ended the cached snapshot is a snapshot of the mock source.
C1_FallbackGuarantee ==
    \A p \in Calls :
        FallbackCall(p) =>
            /\ procs[p].pc # "failed"
            /\ (lastNotify.by = p => lastNotify.reached = subscribers)
            /\ (procs[p].pc = "done" =>
                    cachedData.cyc # 0 /\ cachedData.src = "mock")

\* C2: a notification changes the subscriber set in nothing and reaches
\* every callback registered when it starts, the throwing ones and the ones
\* behind them.
C2_SubscriberIsolation ==
    [][lastNotify'.stage # "none" =>
           /\ subscribers' = subscribers
           /\ lastNotify'.reached = subscribers]_vars

\* C2 witness: a load cycle has notified the throwing callback A and then B.
C2_Witness ==
    /\ lastNotify.stage = "dashboard"
    /\ subscribers = <<"A", "B">>
    /\ lastNotify.reached = <<"A", "B">>

\* C3: a refresh() called while an earlier refresh() is in flight issues no
\* dashboard fetch of its own.
C3_RefreshSerialized ==
    \A p, q \in Calls :
        (/\ p < q
         /\ procs[p].kind = "refresh" /\ InFlight(p)
         /\ procs[q].kind = "refresh")
            => procs[q].pc # "dash"

\* C4: a load cycle replaces the cached object as a whole (the analytics a
\* call wrote into the old object are not in the new one), and an object
\* that was just handed to a subscriber is not changed in place.
C4_AtomicSwap ==
    [][/\ (cachedData'.cyc # cachedData.cyc /\ cachedData.analytics # 0)
              => cachedData'.analytics # cachedData.analytics
       /\ (lastNotify.reached # << >> /\ cachedData'.cyc = cachedData.cyc)
              => cachedData' = cachedData]_vars

\* C5: the snapshot an initialize or refresh hands to a subscriber when its
\* dashboard data is loaded has the analytics of that same call.
C5_CycleAtomicity ==
    (/\ lastNotify.stage = "dashboard"
     /\ lastNotify.reached # << >>
     /\ procs[lastNotify.by].kind \in {"initialize", "refresh"})
        => cachedData.analytics = lastNotify.by

\* C6: after destroy() there is no subscriber, no enrichment entry and no
\* armed timer, and a destroy() right after a destroy() changes nothing.
C6_DestroyIdempotent ==
    [][/\ afterDestroy' =>
              /\ subscribers' = << >>
              /\ \A id \in PatientIds : aiTimestampData'[id] = Absent
              /\ timers' = {}
              /\ syncInterval' = 0
       /\ (afterDestroy /\ afterDestroy') =>
              UNCHANGED <<restIsConnected, isConnected, lastSyncTime,
                          syncInterval, timers, subscribers, cachedData,
                          aiTimestampData>>]_vars

\* C6 witness: destroy() has run while a call was in flight and on a cache
\* that a load cycle had filled.
C6_Witness ==
    /\ afterDestroy
    /\ destroyedAt > 0
    /\ cachedData.cyc # 0
    /\ timers = {}
    /\ subscribers = << >>

\* C7: a load cycle that was in flight when destroy() ran does not replace
\* the cached snapshot and notifies nobody.
C7_DiscardAfterDestroy ==
    (lastNotify.stage \in {"dashboard", "analytics"} /\ Destroyed(lastNotify.by))
        => (cachedData.cyc # lastNotify.by /\ lastNotify.reached = << >>)

\* C8: after destroy() no timer is armed, and an initialize that was in
\* flight when destroy() ran arms none when it ends.
C8_TimerCancelledForGood ==
    /\ afterDestroy => timers = {}
    /\ \A p \in Calls :
           (procs[p].pc = "done" /\ Destroyed(p)) => ~procs[p].armed

\* C9: at most one timer is armed, and the service holds its handle.
C9_AtMostOneTimer ==
    /\ Cardinality(timers) <= 1
    /\ timers \subseteq {syncInterval}
    /\ syncInterval # 0 => timers = {syncInterval}

\* C9 witness: the timer was armed while the service held an armed timer
\* (setInterval returned the id 2): the old one is gone, the new one is held.
C9_Witness == syncInterval = 2 /\ timers = {2}

\* C10: when an initialize has just completed, a timer is armed only if the
\* service is connected.
C10_TimerOnlyWhileConnected ==
    (\E p \in Calls : procs[p].kind = "initialize" /\ procs[p].pc = "done")
        => (timers # {} => isConnected)

\* C11: a load cycle that fetched from the remote source publishes no
\* remote-built snapshot without patients: when the remote searches come to
\* nothing, the published snapshot is the mock source's.
C11_FallbackOnEmptyRemote ==
    (/\ lastNotify.stage = "dashboard"
     /\ procs[lastNotify.by].from = "fhir")
        => (cachedData.src = "mock" \/ cachedData.patients # {})

\* C12: one search sends at most two requests; it sends the second one
\* exactly when the first was answered 400 or 422, and the second request
\* carries no _sort parameter.
C12_RetrySortStripped ==
    request.op = "search" =>
        /\ Len(request.urls) <= 2
        /\ (request.answers # << >> =>
                (Len(request.urls) = 2
                    <=> request.answers[1].status \in {400, 422}))
        /\ (Len(request.urls) = 2 => request.urls[2].sort = "")

\* C13: searchResources and getResource never reject; a call whose last
\* fetch was rejected or answered with a status that is not 2xx resolves to
\* the empty list (searchResources) or to null (getResource).
C13_ClientNeverRaises ==
    /\ request.out # "rejected"
    /\ (request.pc = "done"
          /\ ~ResponseOk(request.answers[Len(request.answers)])) =>
            request.out = (IF request.op = "search" THEN "empty" ELSE "null")

\* C13 witness: a search was answered 422, retried, and the retry was
\* answered 500: it resolved to the empty list.
C13_Witness ==
    /\ request.op = "search"
    /\ request.pc = "done"
    /\ Len(request.answers) = 2
    /\ request.answers[2].status = 500
    /\ request.out = "empty"

\* C14: with S the sum of the key steps of the mapping, a missing step
\* counting 0 and no other step counting, the status is ON TARGET exactly
\* when S <= 240, AT RISK exactly when 241 <= S <= 300 and OFF TARGET exactly
\* when S >= 301.
C14_JourneyClassification ==
    output.done =>
        LET S == SumOver(keySteps \cap DOMAIN input, input)
        IN  /\ (output.label = "ON TARGET" <=> S <= 240)
            /\ (output.label = "AT RISK" <=> (241 <= S /\ S <= 300))
            /\ (output.label = "OFF TARGET" <=> S >= 301)

\* C14 witness: a mapping with a step that is no key step and a sum of
\* exactly 240 was classified ON TARGET.
C14_Witness ==
    /\ output.done
    /\ output.journey = 240
    /\ output.label = "ON TARGET"
    /\ "Door to Triage" \in DOMAIN input
    /\ input["Door to Triage"] = 61

\* C15: the merged timeline is ordered by non-increasing timestamp, and of
\* two events with the same timestamp a clinical event (encounter start or
\* end) never comes after an enrichment event.
C15_TimelineMergeOrder ==
    output.done =>
        \A i, j \in 1..Len(output.events) :
            i < j =>
                /\ output.events[i].timestamp >= output.events[j].timestamp
                /\ (/\ output.events[i].timestamp = output.events[j].timestamp
                    /\ output.events[j].source = "fhir")
                       => output.events[i].source = "fhir"

\* C16: in a snapshot handed to a subscriber, every patient's aiTimestamps
\* is ordered by non-increasing timestamp and lastAITimestamp is the
\* greatest timestamp of the list (null when the list is empty).
C16_SortedEnrichmentLists ==
    (lastNotify.stage # "none" /\ lastNotify.reached # << >>) =>
        \A id \in cachedData.patients :
            LET list == cachedData.aiTimestamps[id]
            IN  /\ \A i, j \in 1..Len(list) : i < j => list[i] >= list[j]
                /\ \A i \in 1..Len(list) :
                       cachedData.lastAITimestamp[id] >= list[i]
                /\ list = << >> => cachedData.lastAITimestamp[id] = 0

\* C17: no step of getPatientTimeline, whether its fetch succeeds or not
\* and whatever the source, changes the cached snapshot, the subscriber set,
\* the timer or the enrichment map, or notifies a subscriber.
C17_TimelineReadOnly ==
    [][(input'.none # input.none \/ output'.done # output.done) =>
           /\ UNCHANGED <<cachedData, subscribers, syncInterval, timers,
                          aiTimestampData>>
           /\ lastNotify' = NoNotify]_vars

\* C17 witness: a timeline was returned with the patient's stored
\* enrichment list while the cache was filled, a subscriber was registered
\* and the timer was armed.
C17_Witness ==
    /\ output.done
    /\ output.timeline # << >>
    /\ output.timeline[1].aiTimeline # << >>
    /\ cachedData.cyc # 0
    /\ subscribers # << >>
    /\ timers # {}

\* C18: a call of an unsubscribe function leaves its callback out of the
\* subscriber set and every other subscriber where it was; a call of an
\* unsubscribe function that was called before changes nothing; and a
\* notification reaches the callbacks that are subscribed, no other.
C18_Unsubscribe ==
    [][/\ lastUnsubscribe'.now =>
              /\ lastUnsubscribe'.cb \notin Range(subscribers')
              /\ subscribers' =
                     SelectSeq(subscribers,
                               LAMBDA x : x # lastUnsubscribe'.cb)
              /\ lastUnsubscribe'.again => subscribers' = subscribers
       /\ lastNotify'.stage # "none" =>
              Range(lastNotify'.reached) = Range(subscribers)]_vars

\* C19: on every path the age derived from a birth date is the difference
\* of the years, less one exactly when the current (month, day) comes before
\* the birth (month, day), and it is not negative.
C19_CalendarAge ==
    output.done =>
        LET birth == input.birthDate
            today == input.today
            before == \/ today.month < birth.month
                      \/ today.month = birth.month /\ today.day < birth.day
        IN  /\ output.age =
                   today.year - birth.year - (IF before THEN 1 ELSE 0)
            /\ output.age >= 0

\* C20: the extracted vitals have the five fields hr, bp, temp, rr and
\* spo2, none of them undefined; a field none of whose codes has an
\* observation of the patient holds N/A; and the observations whose code is
\* not in the table could as well not be there.
C20_VitalsTotal ==
    output.done =>
        LET obs == input.observations
            known == SelectSeq(obs, LAMBDA o : o.code \in VitalCodes)
        IN  /\ DOMAIN output.vitals = VitalFields
            /\ \A f \in VitalFields :
                   /\ output.vitals[f].kind # "undefined"
                   /\ (~\E i \in 1..Len(obs) :
                            /\ obs[i].subject = Reference(input.patientId)
                            /\ obs[i].code \in VitalCodes
                            /\ FieldOf(obs[i].code) = f)
                          => output.vitals[f] = NA
            /\ output.vitals = extractVitals(known, input.patientId)

\* C20 witness: the patient has a diastolic pressure and an observation
\* with an unknown code, and no heart rate: bp is "--/1", hr is N/A.
C20_Witness ==
    /\ output.done
    /\ \E i \in 1..Len(input.observations) :
           /\ input.observations[i].subject = Reference(input.patientId)
           /\ input.observations[i].code = "9279-1"
           /\ input.observations[i].value = 10
    /\ output.vitals.bp = String(<<Dashes, 1>>)
    /\ output.vitals.hr = NA

\* C21: the bp field is either N/A or a pair of two numbers; no half of it
\* is the placeholder "--".
C21_BloodPressureNeverPartial ==
    output.done =>
        \/ output.vitals.bp = NA
        \/ /\ output.vitals.bp.kind = "string"
           /\ Len(output.vitals.bp.val) = 2
           /\ \A i \in 1..2 : output.vitals.bp.val[i] # Dashes

\* C22: every well-formed patient entry of a batch has its summary in the
\* adapted dashboard, at its place, whatever the other entries are; an
\* entry whose name is missing is named "Unknown Patient".
C22_PerResourceIsolation ==
    output.done =>
        \A i \in DOMAIN input.patients :
            input.patients[i].resource =>
                /\ output.data.from = "adapted"
                /\ i \in DOMAIN output.data.patients
                /\ output.data.patients[i].id = input.patients[i].id
                /\ output.data.patients[i].status = "in-treatment"
                /\ output.data.patients[i].priority = "normal"
                /\ input.patients[i].name = << >> =>
                       output.data.patients[i].name = <<"Unknown", "Patient">>

\* C23: whatever the patients for which generatePatientTimeline throws, the
\* cycle publishes every patient of the source, enriched: a patient whose
\* call threw has the locally generated list (or none), a patient whose
\* call answered has the events of its answer.
C23_EnrichmentFaultsIsolated ==
    output.done =>
        /\ Len(output.patients) = Len(input.patients)
        /\ \A i \in DOMAIN input.patients :
               LET patient == output.patients[i]
               IN  /\ patient.id = input.patients[i]
                   /\ patient.enhanced
                   /\ output.outcomes[i] = "throws" =>
                          patient.aiTimestamps \in
                              {<< >>,
                               generatePatientAITimestamps(patient.id)}
                   /\ output.outcomes[i] = "events" =>
                          patient.aiTimestamps = ServiceEvents
                   /\ output.outcomes[i] = "noEvents" =>
                          patient.aiTimestamps = << >>

\* C23 witness: a cycle was published in which the enrichment of one
\* patient threw and that of a later patient answered with events.
C23_Witness ==
    /\ output.done
    /\ \E i, j \in DOMAIN input.patients :
           /\ i < j
           /\ output.outcomes[i] = "throws"
           /\ output.outcomes[j] = "events"
           /\ output.patients[j].aiTimestamps = ServiceEvents

\* C24: the stays are never below zero; the reported average is their mean
\* and the reported median is their median (for an even number of stays
\* the mean of the two middle ones), in hours with one decimal.
C24_LengthOfStay ==
    (output.done /\ input.connected) =>
        LET minutes == losMinutes(input.encounters)
            sorted == sortAscending(minutes)
            n == Len(minutes)
        IN  /\ \A i \in DOMAIN minutes : minutes[i] >= 0
            /\ n > 0 =>
                   /\ output.analytics.losStats.average =
                          RoundDiv(Sum(minutes), 6 * n)
                   /\ output.analytics.losStats.median =
                          IF n % 2 = 1 THEN RoundDiv(sorted[n \div 2 + 1], 6)
                          ELSE RoundDiv(sorted[n \div 2]
                                            + sorted[n \div 2 + 1], 12)

\* C25: the lab (imaging) turnaround is the rounded mean, at least 1, of
\* the durations of the LAB (RAD) reports that have both timestamps and
\* were not issued before their effective time; without such a report it
\* is the default 45 (75); the keys are those of the defaults either way.
C25_TurnaroundPerCategory ==
    (output.done /\ input.connected) =>
        LET turnaround == output.analytics.turnaround
            Valid(category) ==
                SelectSeq(input.diagReports,
                    LAMBDA r : /\ r.category = category
                               /\ r.eff # 0 /\ r.issued # 0
                               /\ r.issued >= r.eff)
            Minute(r) == RoundDiv(r.issued - r.eff, 2)
            Mean(reports) ==
                RoundDiv(Sum([i \in DOMAIN reports |-> Minute(reports[i])]),
                         Len(reports))
            Expected(category, default) ==
                IF Valid(category) = << >> THEN default
                ELSE Max(1, Mean(Valid(category)))
        IN  /\ DOMAIN turnaround = DOMAIN buildTurnaroundData
            /\ turnaround["Pathology Request to Result"] = Expected("LAB", 45)
            /\ turnaround["Imaging Request to Reported"] = Expected("RAD", 75)
            /\ \A k \in DOMAIN turnaround :
                   /\ turnaround[k] >= 1
                   /\ k \notin {"Pathology Request to Result",
                                "Imaging Request to Reported"} =>
                          turnaround[k] = buildTurnaroundData[k]

\* C25 witness: the only valid LAB report was issued at its effective time
\* (0 minutes, reported as 1), and the only RAD report has no issued time
\* (imaging keeps 75).
C25_Witness ==
    /\ output.done
    /\ input.connected
    /\ input.diagReports =
           <<[eff |-> 240, issued |-> 240, category |-> "LAB"],
             [eff |-> 240, issued |-> 0, category |-> "RAD"]>>
    /\ output.analytics.turnaround["Pathology Request to Result"] = 1
    /\ output.analytics.turnaround["Imaging Request to Reported"] = 75

\* C26: no two patients of the dashboard adapted from the entries of the
\* source have the same id.
C26_NoDuplicatePatients ==
    (output.done /\ output.data.from = "adapted") =>
        \A i, j \in DOMAIN output.data.patients :
            output.data.patients[i].id = output.data.patients[j].id => i = j

\* C27: the cached snapshot is never replaced by that of a load cycle that
\* started before the cycle whose snapshot is cached (calls are numbered in
\* the order they start), and such a cycle notifies nobody.
C27_PublishedInStartOrder ==
    [][/\ cachedData'.cyc >= cachedData.cyc
       /\ lastNotify'.stage = "dashboard" =>
              lastNotify'.by >= cachedData.cyc]_vars

\* C28: the cached snapshot went through adaptDashboardData exactly when
\* its cycle fetched it from the mock fixture.
C28_SourceAndAdaptationAgree ==
    cachedData.cyc # 0 => (cachedData.adapted <=> cachedData.src = "mock")

\* C29: a callback stays subscribed, and is reached by every notification,
\* as long as one of the unsubscribe functions returned for it was not
\* called.
C29_IndependentSubscriptions ==
    \A cb \in Callbacks :
        output.live[cb] > 0 =>
            /\ cb \in Range(subscribers)
            /\ lastNotify.stage # "none" => cb \in Range(lastNotify.reached)

\* C30: the step in which the dashboard fetch of a load cycle fails leaves
\* the cached snapshot and lastSyncTime as they were and notifies nobody;
\* the failure of a periodic cycle is caught and leaves the timer as it was.
C30_FailedCycleChangesNothing ==
    [][\A p \in Calls :
           (procs[p].pc = "dash" /\ procs'[p].pc \notin {"dash", "ai"}) =>
               /\ cachedData' = cachedData
               /\ lastSyncTime' = lastSyncTime
               /\ lastNotify' = NoNotify
               /\ subscribers' = subscribers
               /\ procs[p].kind = "tick" =>
                      /\ procs'[p].pc = "done"
                      /\ timers' = timers
                      /\ syncInterval' = syncInterval]_vars

\* C30 witness: the fetch of a periodic cycle has just failed, with a
\* subscriber registered, a snapshot of an earlier cycle in the cache and
\* the timer armed.
C30_Witness ==
    /\ \E p \in Calls :
           /\ procs[p].kind = "tick"
           /\ procs[p].pc = "done"
           /\ cachedData.cyc \notin {0, p}
    /\ lastNotify = NoNotify
    /\ subscribers # << >>
    /\ timers # {}

====
